---- MODULE Spec2Model ----
(***************************************************************************)
(* State-machine model of the rate limiters of learn.ratelimiter:         *)
(* four algorithms (fixed window, sliding window, token bucket, leaky     *)
(* bucket) over three stores (process memory, Redis, Memcached).          *)
(*                                                                         *)
(* Time is counted in ticks; TicksPerSec ticks make one second.  `now` is *)
(* the real time; it is the clock of the process (time.Now()) and of the  *)
(* servers that expire keys.  A remote client reads its own clock, which  *)
(* may run ahead of `now` by up to MaxSkew ticks.                          *)
(*                                                                         *)
(* Every limiter has its own specification (SpecFcInMem, SpecFcRedis, ...) *)
(* over the same variables; the variables a limiter does not use keep     *)
(* their initial value.                                                   *)
(***************************************************************************)
EXTENDS Integers, Sequences, FiniteSets, TLC

VARIABLES
    cfg,        \* the policy [window, limit, rate, capacity] and its environment
                \* [skew, faults] (and, where one specification covers several
                \* backends, the backend), fixed at construction
    now,        \* real time, in ticks
    mem,        \* state held in the limiter object (in-memory limiters)
    redis,      \* the Redis keyspace: identifier -> [val, exp] (absent: no key)
    memcache,   \* the Memcached keyspace: identifier -> [val, exp, ver]
    clients,    \* callers inside a Memcached Allow: client -> its locals
    hist,       \* the verdicts returned so far, oldest first
    last        \* what the latest call returned

vars == <<cfg, now, mem, redis, memcache, clients, hist, last>>

\* ------------------------------------------------------------------ bounds
MaxTime == 3
MaxCalls == 4
MaxLimit == 2
MaxSkew == 1

\* One second of time.Duration, in ticks (a tick is half a second).
TicksPerSec == 2

Ids == {"A", "B"}

\* The environment of a limiter: the largest offset of a client's clock from the
\* real time (0: synchronised clocks), and whether backend operations may fail.
Policy(window, limit, rate, capacity, skew, faults) ==
    [window |-> window, limit |-> limit, rate |-> rate, capacity |-> capacity,
     skew |-> skew, faults |-> faults]

\* Window lengths in ticks: from one second to the next whole second, so that
\* whole and fractional numbers of seconds both occur.
Windows == TicksPerSec..(2 * TicksPerSec - 1)

\* The environments: synchronised clocks and a healthy backend; one client
\* whose clock runs ahead; a backend whose operations may fail.
Envs == {<<0, FALSE>>, <<MaxSkew, FALSE>>, <<0, TRUE>>}

Faults(ops) == IF cfg.faults THEN {"none"} \cup ops ELSE {"none"}
Clients == {"c1", "c2"}

\* time.Time{} (the zero time of a fresh CounterState): before every clock reading.
ZeroTime == -1

NoExp == -1

Empty == << >>

Has(f, k) == k \in DOMAIN f

Put(f, k, v) == (k :> v) @@ f

Min(a, b) == IF a < b THEN a ELSE b

Max(a, b) == IF a > b THEN a ELSE b

\* Go's int64(x) of a quotient: truncation toward zero.
TruncDiv(a, b) == IF a >= 0 THEN a \div b ELSE -((-a) \div b)

\* One verdict: the identifier, the clock value it used, the verdict, and the
\* window or bucket it was counted in.
Verdict(id, t, allowed, info) ==
    [id |-> id, t |-> t, allowed |-> allowed, info |-> info]

\* What a call returned: (allowed, err), and the backend operation that failed
\* during it ("none" when all succeeded).
Return(id, allowed, err, failed) ==
    [id |-> id, allowed |-> allowed, err |-> err, failed |-> failed]

NoReturn == Return("", FALSE, "", "none")

Calls(id) == {i \in DOMAIN hist : hist[i].id = id}

AllowedCalls(id) == {i \in Calls(id) : hist[i].allowed}

\* The keys of a server that are still there at time t: a key is removed when
\* its expiry time is reached.
Unexpired(db, t) ==
    [k \in {x \in DOMAIN db : db[x].exp = NoExp \/ t < db[x].exp} |-> db[k]]

\* The clock advances, and the servers drop the keys that expire.
Tick ==
    /\ now < MaxTime
    /\ now' = now + 1
    /\ redis' = Unexpired(redis, now + 1)
    /\ memcache' = Unexpired(memcache, now + 1)
    /\ UNCHANGED <<cfg, mem, clients, hist, last>>

\* ------------------------------------------------- fixed window, in memory

FcConfigs == {Policy(w, l, 0, 0, 0, FALSE) : w \in Windows, l \in 1..MaxLimit}

\* l.counters.LoadOrStore(identifier, &CounterState{})
FcLoadOrStore(counters, id) ==
    IF Has(counters, id) THEN counters
    ELSE Put(counters, id, [Count |-> 0, WindowEnd |-> ZeroTime])

FcWindowReset(state, t, window) ==
    IF t > state.WindowEnd
    THEN [Count |-> 0, WindowEnd |-> t + window]
    ELSE state

FcUnderLimitOff(count, limit) == count <= limit

FcUnderLimit(count, limit) == count < limit

\* Allow counting every request, the denied ones too.
FcInMemDecideOff(state, t, window, limit) ==
    LET s == FcWindowReset(state, t, window)
    IN [state |-> [s EXCEPT !.Count = @ + 1], allowed |-> FcUnderLimit(s.Count, limit)]

\* The locked part of Allow: the window reset, then the count check.
FcInMemDecide(state, t, window, limit) ==
    LET s == FcWindowReset(state, t, window)
    IN IF FcUnderLimit(s.Count, limit)
       THEN [state |-> [s EXCEPT !.Count = @ + 1], allowed |-> TRUE]
       ELSE [state |-> s, allowed |-> FALSE]

FcInMemAllow(id, ctxDone) ==
    /\ Len(hist) < MaxCalls
    /\ LET counters == FcLoadOrStore(mem, id)
           state == counters[id]
           d == FcInMemDecide(state, now, cfg.window, cfg.limit)
       IN IF ctxDone
          THEN /\ mem' = counters
               /\ hist' = hist
               /\ last' = Return(id, FALSE, "ctx", "none")
          ELSE /\ mem' = Put(counters, id, d.state)
               /\ hist' = Append(hist, Verdict(id, now, d.allowed, d.state.WindowEnd))
               /\ last' = Return(id, d.allowed, "", "none")
    /\ UNCHANGED <<cfg, now, redis, memcache, clients>>

InitFcInMem ==
    /\ cfg \in FcConfigs
    /\ now = 0
    /\ mem = Empty
    /\ redis = Empty
    /\ memcache = Empty
    /\ clients = Empty
    /\ hist = << >>
    /\ last = NoReturn

NextFcInMem ==
    \/ Tick
    \/ \E id \in Ids, ctxDone \in BOOLEAN : FcInMemAllow(id, ctxDone)

SpecFcInMem == InitFcInMem /\ [][NextFcInMem]_vars

\* C2 (as stated): per identifier, at most limit Allowed verdicts have their time
\* in any one aligned interval [k*W, (k+1)*W).
C2_AlignedIntervalBound ==
    \A id \in Ids : \A k \in 0..MaxTime :
        Cardinality({i \in AllowedCalls(id) : hist[i].t \div cfg.window = k})
            <= cfg.limit

\* The verdicts counted in the limiter's window that ends at `e`: the window is
\* opened by the first request after the previous window's end, at time e - W,
\* and covers the times e - W .. e.
FcWindowEnds(id) == {hist[i].info : i \in Calls(id)}

FcAllowedInWindow(id, e) ==
    {i \in AllowedCalls(id) : e - cfg.window <= hist[i].t /\ hist[i].t <= e}

\* C2 (amended): per identifier, at most limit Allowed verdicts have their time
\* in any one window of the limiter, which runs from the request that opened it
\* at time s through s + W.
C2_LimiterWindowBound ==
    \A id \in Ids : \A e \in FcWindowEnds(id) :
        Cardinality(FcAllowedInWindow(id, e)) <= cfg.limit

\* A window that admitted limit requests and then denied one, after an earlier
\* window of the same identifier.
C2_Witness ==
    \E id \in Ids : \E i \in Calls(id) :
        /\ ~hist[i].allowed
        /\ Cardinality(FcAllowedInWindow(id, hist[i].info)) = cfg.limit
        /\ \E j \in AllowedCalls(id) : hist[j].info < hist[i].info

\* C30: a Denied verdict leaves the identifier's counter as it was, and after
\* every step the stored count of every identifier is between 0 and limit.
C30_DeniedKeepsCount ==
    [][/\ \A id \in DOMAIN mem' :
             0 <= mem'[id].Count /\ mem'[id].Count <= cfg.limit
       /\ \A id \in Ids :
             (FcInMemAllow(id, FALSE) /\ ~last'.allowed) =>
                 (Has(mem, id) /\ mem'[id].Count = mem[id].Count)]_vars

\* C30's case: a request has just been Denied and its counter stands at limit.
C30_Witness ==
    /\ last.id \in Ids /\ last.err = "" /\ ~last.allowed
    /\ Has(mem, last.id) /\ mem[last.id].Count = cfg.limit
    /\ Len(hist) > cfg.limit /\ ~hist[Len(hist)].allowed

\* C32: a request of a first-seen identifier, or one that arrives at
\* now >= window_end (now = window_end included), starts a new window before it
\* is counted: window_end becomes now + window_duration and the count restarts
\* from 0, so that it stands at 1 after this request (limit > 0).
C32_NewWindowAtWindowEnd ==
    [][\A id \in Ids :
          (/\ FcInMemAllow(id, FALSE)
           /\ (~Has(mem, id) \/ now >= mem[id].WindowEnd)) =>
                (/\ mem'[id].WindowEnd = now + cfg.window
                 /\ mem'[id].Count = 1)]_vars

\* --------------------------------------------------- fixed window, Redis

\* A client's clock reading: the real time plus the client's skew.
ClockReadings == {now, now + cfg.skew}

\* int64(l.window.Seconds()), at least 1
FcExpirySeconds(window) == Max(1, window \div TicksPerSec)

\* HINCRBY key field 1 on the hash (a missing key or field counts as 0).
HIncrBy1(hash, field) ==
    IF Has(hash, field) THEN [hash EXCEPT ![field] = @ + 1] ELSE Put(hash, field, 1)

\* The script counting only the requests it allows.
FcRedisScriptOff(db, key, now_ms, window_ms, limit, expiry_sec) ==
    LET window_start_ms == (now_ms \div window_ms) * window_ms
        old == IF Has(db, key) THEN db[key] ELSE [val |-> Empty, exp |-> NoExp]
        before == IF Has(old.val, window_start_ms) THEN old.val[window_start_ms] ELSE 0
        hash == IF before < limit THEN HIncrBy1(old.val, window_start_ms)
                ELSE Put(old.val, window_start_ms, before)
        exp == IF before = 0 THEN now + expiry_sec * TicksPerSec ELSE old.exp
    IN [db |-> Put(db, key, [val |-> hash, exp |-> exp]),
        result |-> IF before < limit THEN 1 ELSE 0,
        field |-> window_start_ms]

\* The Lua script, run atomically by the server: the key's new value and expiry
\* and the script's result.
FcRedisScript(db, key, now_ms, window_ms, limit, expiry_sec) ==
    LET window_start_ms == (now_ms \div window_ms) * window_ms
        old == IF Has(db, key) THEN db[key] ELSE [val |-> Empty, exp |-> NoExp]
        hash == HIncrBy1(old.val, window_start_ms)
        count == hash[window_start_ms]
        exp == IF count = 1 THEN now + expiry_sec * TicksPerSec ELSE old.exp
    IN [db |-> Put(db, key, [val |-> hash, exp |-> exp]),
        result |-> IF count <= limit THEN 1 ELSE 0,
        field |-> window_start_ms]

\* fault: "none", or "script" when Run returns an error and nothing was executed.
FcRedisAllow(id, nowMillis, fault) ==
    /\ Len(hist) < MaxCalls
    /\ LET r == FcRedisScript(redis, id, nowMillis, cfg.window, cfg.limit,
                              FcExpirySeconds(cfg.window))
       IN IF fault = "script"
          THEN /\ UNCHANGED <<redis, hist>>
               /\ last' = Return(id, FALSE, "script", "script")
          ELSE /\ redis' = r.db
               /\ hist' = Append(hist, Verdict(id, nowMillis, r.result = 1, r.field))
               /\ last' = Return(id, r.result = 1, "", "none")
    /\ UNCHANGED <<cfg, now, mem, memcache, clients>>

FcRedisConfigs ==
    {Policy(w, l, 0, 0, e[1], e[2]) : w \in Windows, l \in 1..MaxLimit, e \in Envs}

InitFcRedis ==
    /\ cfg \in FcRedisConfigs
    /\ now = 0
    /\ mem = Empty
    /\ redis = Empty
    /\ memcache = Empty
    /\ clients = Empty
    /\ hist = << >>
    /\ last = NoReturn

NextFcRedis ==
    \/ Tick
    \/ \E id \in Ids, t \in ClockReadings, fault \in Faults({"script"}) :
            FcRedisAllow(id, t, fault)

SpecFcRedis == InitFcRedis /\ [][NextFcRedis]_vars

\* C3: among the verdicts of one identifier whose now_ms falls in the same fixed
\* window floor(now_ms / window_ms), at most limit are Allowed (stated for
\* clients whose clocks agree, where the window of a verdict is unambiguous).
C3_RedisWindowBound ==
    cfg.skew = 0 =>
    \A id \in Ids : \A k \in 0..(MaxTime + MaxSkew) :
        Cardinality({i \in AllowedCalls(id) : hist[i].t \div cfg.window = k})
            <= cfg.limit

\* C14: per identifier, any interval of real time of length W, from an instant
\* a through a + W, holds at most 2 * limit Allowed verdicts (stated for
\* clients whose clocks agree, so that a verdict's time is the real time).
C14_TwiceLimitPerInterval ==
    cfg.skew = 0 =>
    \A id \in Ids : \A a \in 0..MaxTime :
        Cardinality({i \in AllowedCalls(id) :
                        a <= hist[i].t /\ hist[i].t <= a + cfg.window})
            <= 2 * cfg.limit

\* C27: the expiry that a window's first increment sets on the key is at least
\* window_duration: the key then lives at least one window from that instant.
C27_ExpiryCoversWindow ==
    [][\A id \in Ids, t \in ClockReadings :
          (/\ FcRedisAllow(id, t, "none")
           /\ redis'[id].val[(t \div cfg.window) * cfg.window] = 1) =>
                redis'[id].exp - now >= cfg.window]_vars

\* ------------------------------------------------ sliding window, in memory

\* t.Truncate(d): t rounded down to a multiple of d.
Truncate(t, d) == t - (t % d)

\* l.initializeWindowCounter(0)
SwInitializeWindowCounter(previousWindowCount, t, windowSize) ==
    [previousWindowCount |-> previousWindowCount,
     currentWindowCount |-> 0,
     currentWindowStart |-> Truncate(t, windowSize)]

SwLoadOrStore(counter, id, t, windowSize) ==
    IF Has(counter, id) THEN counter
    ELSE Put(counter, id, SwInitializeWindowCounter(0, t, windowSize))

\* The window shift at the head of Allow.
SwSlide(c, t, windowSize) ==
    LET timeSinceWindowStart == t - c.currentWindowStart
    IN IF timeSinceWindowStart >= windowSize
       THEN [previousWindowCount |->
                IF timeSinceWindowStart < 2 * windowSize
                THEN c.currentWindowCount ELSE 0,
             currentWindowCount |-> 0,
             currentWindowStart |-> Truncate(t, windowSize)]
       ELSE c

\* totalRequests = weightCurrentWindow * currentWindowCount
\*               + (1 - weightCurrentWindow) * previousWindowCount
\*   weightCurrentWindow = timeSinceWindowStart / windowSize
\* multiplied by windowSize (> 0), which makes it a whole number.
SwTotalRequests(c, t, windowSize) ==
    LET timeSinceWindowStart == t - c.currentWindowStart
    IN timeSinceWindowStart * c.currentWindowCount
         + (windowSize - timeSinceWindowStart) * c.previousWindowCount

\* totalRequests < float64(l.limit), both sides multiplied by windowSize.
SwUnderLimit(c, t, windowSize, limit) ==
    SwTotalRequests(c, t, windowSize) < limit * windowSize

SwInMemDecide(c0, t, windowSize, limit) ==
    LET c == SwSlide(c0, t, windowSize)
    IN IF SwUnderLimit(c, t, windowSize, limit)
       THEN [state |-> [c EXCEPT !.currentWindowCount = @ + 1], allowed |-> TRUE]
       ELSE [state |-> c, allowed |-> FALSE]

SwInMemAllow(id, ctxDone) ==
    /\ Len(hist) < MaxCalls
    /\ LET counter == SwLoadOrStore(mem, id, now, cfg.window)
           d == SwInMemDecide(counter[id], now, cfg.window, cfg.limit)
       IN IF ctxDone
          THEN /\ mem' = counter
               /\ hist' = hist
               /\ last' = Return(id, FALSE, "ctx", "none")
          ELSE /\ mem' = Put(counter, id, d.state)
               /\ hist' = Append(hist, Verdict(id, now, d.allowed,
                                               d.state.currentWindowStart))
               /\ last' = Return(id, d.allowed, "", "none")
    /\ UNCHANGED <<cfg, now, redis, memcache, clients>>

InitSwInMem == InitFcInMem

NextSwInMem ==
    \/ Tick
    \/ \E id \in Ids, ctxDone \in BOOLEAN : SwInMemAllow(id, ctxDone)

SpecSwInMem == InitSwInMem /\ [][NextSwInMem]_vars

\* C4: from fresh state, a request of an identifier is Allowed only if fewer than
\* limit requests of that identifier were Allowed before it in the same window
\* (the window that starts at the request's currentWindowStart).
C4_AtMostLimitPerWindow ==
    \A id \in Ids : \A i \in AllowedCalls(id) :
        Cardinality({j \in AllowedCalls(id) : j < i /\ hist[j].info = hist[i].info})
            < cfg.limit

\* C13: after the sliding step a verdict is Allowed iff
\* curr_count + w_prev * prev_count + 1 <= limit, with
\* w_prev = (W - (now - curr_window_start)) / W and curr_count the count before
\* the request, and curr_count grows by one exactly when the verdict is Allowed
\* (both sides of the comparison multiplied by W).
C13_AllowIffEstimateFits ==
    [][\A id \in Ids :
          SwInMemAllow(id, FALSE) =>
              LET c == SwSlide(SwLoadOrStore(mem, id, now, cfg.window)[id], now, cfg.window)
                  fits == (c.currentWindowCount + 1) * cfg.window
                            + (cfg.window - (now - c.currentWindowStart))
                                * c.previousWindowCount
                          <= cfg.limit * cfg.window
              IN /\ last'.allowed = fits
                 /\ mem'[id].currentWindowCount =
                        c.currentWindowCount + (IF fits THEN 1 ELSE 0)]_vars

\* The estimate (times windowSize) a verdict at time t would compute from the
\* stored counter c0: the slide, then the weighting.
SwEstimateAt(c0, t, windowSize) ==
    SwTotalRequests(SwSlide(c0, t, windowSize), t, windowSize)

\* C15: while no request arrives, the estimate a verdict would compute from the
\* stored state does not grow with time.
C15_EstimateNonIncreasing ==
    \A id \in DOMAIN mem : \A t1, t2 \in now..MaxTime :
        t1 < t2 =>
            SwEstimateAt(mem[id], t2, cfg.window) <= SwEstimateAt(mem[id], t1, cfg.window)

\* The policy of the sliding-window scenario: window = 2 s, limit = 2.
InitSwScenario ==
    /\ cfg = Policy(2 * TicksPerSec, 2, 0, 0, 0, FALSE)
    /\ now = 0
    /\ mem = Empty
    /\ redis = Empty
    /\ memcache = Empty
    /\ clients = Empty
    /\ hist = << >>
    /\ last = NoReturn

SpecSwScenario == InitSwScenario /\ [][NextSwInMem]_vars

\* The times of the scenario's first three requests: 0 s, 0.5 s, 1 s.
SwScenarioTimes == <<0, TicksPerSec \div 2, TicksPerSec>>

\* The verdicts returned for one identifier, oldest first.
VerdictsOf(id) == LET Mine(v) == v.id = id IN SelectSeq(hist, Mine)

\* C20: with window = 2 s and limit = 2, the requests of a fresh identifier at
\* 0 s, 0.5 s and 1 s are Allowed, Allowed, Denied (the scenario's fourth
\* request, at 2.1 s, comes after these).
C20_SlidingScenario ==
    \A id \in Ids :
        LET h == VerdictsOf(id)
        IN (Len(h) >= 3 /\ \A k \in 1..3 : h[k].t = SwScenarioTimes[k]) =>
               (h[1].allowed /\ h[2].allowed /\ ~h[3].allowed)

\* The clock of the runs that outlast two windows: it advances up to twice
\* MaxTime (the in-memory limiter keeps nothing on a server).
SwHorizon == 2 * MaxTime

SwTick ==
    /\ now < SwHorizon
    /\ now' = now + 1
    /\ UNCHANGED <<cfg, mem, redis, memcache, clients, hist, last>>

NextSwSlide ==
    \/ SwTick
    \/ \E id \in Ids, ctxDone \in BOOLEAN : SwInMemAllow(id, ctxDone)

SpecSwSlide == InitSwInMem /\ [][NextSwSlide]_vars

\* C28: the slide before a decision on an identifier that has a counter, with
\* elapsed = now - curr_window_start.  elapsed < W: the window start and
\* prev_count stay.  W <= elapsed < 2W: prev_count takes the value of
\* curr_count and the window start advances by exactly W.  Otherwise:
\* prev_count becomes 0 and the window start becomes now.  In the two shifting
\* cases curr_count restarts from 0 (and counts this request if it is Allowed).
C28_SlideRule ==
    [][\A id \in Ids :
          (SwInMemAllow(id, FALSE) /\ Has(mem, id)) =>
            LET c == mem[id]
                d == mem'[id]
                W == cfg.window
                elapsed == now - c.currentWindowStart
            IN IF elapsed < W
               THEN /\ d.currentWindowStart = c.currentWindowStart
                    /\ d.previousWindowCount = c.previousWindowCount
                    /\ d.currentWindowCount \in
                          {c.currentWindowCount, c.currentWindowCount + 1}
               ELSE IF elapsed < 2 * W
               THEN /\ d.currentWindowStart = c.currentWindowStart + W
                    /\ d.previousWindowCount = c.currentWindowCount
                    /\ d.currentWindowCount \in {0, 1}
               ELSE /\ d.currentWindowStart = now
                    /\ d.previousWindowCount = 0
                    /\ d.currentWindowCount \in {0, 1}]_vars

\* --------------------------------------------------- token bucket, in memory

\* math.Floor of a quotient with a positive divisor.
FloorDiv(a, b) == IF a >= 0 THEN a \div b ELSE -((b - 1 - a) \div b)

\* Rates in tokens per second: one per second, and one per tick.
Rates == {1, TicksPerSec}

TbConfigs == {Policy(0, 0, r, c, 0, FALSE) : r \in Rates, c \in 1..MaxLimit}

TbNewBucket(buckets, id, t, capacity) ==
    IF Has(buckets, id) THEN buckets
    ELSE Put(buckets, id, [tokens |-> capacity, capacity |-> capacity, lastRefill |-> t])

\* numTokensAdded := int(math.Floor(now.Sub(bucket.lastRefill).Seconds() * rate))
TbInMemRefill(bucket, t, rate) ==
    LET numTokensAdded == FloorDiv((t - bucket.lastRefill) * rate, TicksPerSec)
    IN IF numTokensAdded > 0
       THEN [bucket EXCEPT !.tokens = Min(bucket.capacity, @ + numTokensAdded),
                           !.lastRefill = t]
       ELSE bucket

TbInMemTakeOff(bucket) ==
    IF bucket.tokens >= 0
    THEN [state |-> [bucket EXCEPT !.tokens = @ - 1], allowed |-> TRUE]
    ELSE [state |-> bucket, allowed |-> FALSE]

TbInMemTake(bucket) ==
    IF bucket.tokens > 0
    THEN [state |-> [bucket EXCEPT !.tokens = @ - 1], allowed |-> TRUE]
    ELSE [state |-> bucket, allowed |-> FALSE]

TbInMemAllow(id, ctxDone) ==
    /\ Len(hist) < MaxCalls
    /\ LET buckets == TbNewBucket(mem, id, now, cfg.capacity)
           bucket == TbInMemRefill(buckets[id], now, cfg.rate)
           d == TbInMemTake(bucket)
       IN IF ctxDone
          THEN /\ mem' = Put(buckets, id, bucket)
               /\ hist' = hist
               /\ last' = Return(id, FALSE, "ctx", "none")
          ELSE /\ mem' = Put(buckets, id, d.state)
               /\ hist' = Append(hist, Verdict(id, now, d.allowed, d.state.tokens))
               /\ last' = Return(id, d.allowed, "", "none")
    /\ UNCHANGED <<cfg, now, redis, memcache, clients>>

InitTbInMem ==
    /\ cfg \in TbConfigs
    /\ now = 0
    /\ mem = Empty
    /\ redis = Empty
    /\ memcache = Empty
    /\ clients = Empty
    /\ hist = << >>
    /\ last = NoReturn

NextTbInMem ==
    \/ Tick
    \/ \E id \in Ids, ctxDone \in BOOLEAN : TbInMemAllow(id, ctxDone)

SpecTbInMem == InitTbInMem /\ [][NextTbInMem]_vars

\* C12: an Allow call with a pre-cancelled context changes no stored state: no
\* per-identifier entry is created, no token count or timestamp is modified.
C12_CancelledChangesNothing ==
    [][\A id \in Ids : TbInMemAllow(id, TRUE) => mem' = mem]_vars

\* C29: every verdict, Allowed or Denied, leaves the bucket stored with
\* last_refill equal to the now of that verdict.
C29_VerdictStoresNow ==
    [][\A id \in Ids :
          TbInMemAllow(id, FALSE) => mem'[id].lastRefill = now]_vars

\* ------------------------------------------------------ token bucket, Redis

CeilDiv(a, b) == (a + b - 1) \div b

\* local ttl = math.ceil(capacity / rate) * 2, in seconds
TbRedisTtl(capacity, rate) == CeilDiv(capacity, rate) * 2

\* The refill of an existing bucket.
TbRedisRefill(bucket, capacity, rate, t) ==
    LET time_since_last_refill == t - bucket.last_refill_time
        refill_amount == FloorDiv(time_since_last_refill * rate, TicksPerSec)
    IN [tokens |-> Min(capacity, bucket.tokens + refill_amount),
        last_refill_time |-> t]

\* The Lua script: the key's new value and expiry, and the reply {allowed, tokens}.
TbRedisScript(db, key, capacity, rate, t, requested) ==
    LET bucket == IF Has(db, key)
                  THEN TbRedisRefill(db[key].val, capacity, rate, t)
                  ELSE [tokens |-> capacity, last_refill_time |-> t]
        allowed == bucket.tokens >= requested
        tokens == IF allowed THEN bucket.tokens - requested ELSE bucket.tokens
        val == [tokens |-> tokens, last_refill_time |-> bucket.last_refill_time]
    IN [db |-> Put(db, key, [val |-> val,
                             exp |-> now + TbRedisTtl(capacity, rate) * TicksPerSec]),
        result |-> <<IF allowed THEN 1 ELSE 0, tokens>>]

TbRedisAllow(id, t, fault) ==
    /\ Len(hist) < MaxCalls
    /\ LET r == TbRedisScript(redis, id, cfg.capacity, cfg.rate, t, 1)
       IN IF fault = "script"
          THEN /\ UNCHANGED <<redis, hist>>
               /\ last' = Return(id, FALSE, "script", "script")
          ELSE /\ redis' = r.db
               /\ hist' = Append(hist, Verdict(id, t, r.result[1] = 1, r.result[2]))
               /\ last' = Return(id, r.result[1] = 1, "", "none")
    /\ UNCHANGED <<cfg, now, mem, memcache, clients>>

TbRemoteConfigs ==
    {Policy(0, 0, r, c, e[1], e[2]) : r \in Rates, c \in 1..MaxLimit, e \in Envs}

InitTbRedis ==
    /\ cfg \in TbRemoteConfigs
    /\ now = 0
    /\ mem = Empty
    /\ redis = Empty
    /\ memcache = Empty
    /\ clients = Empty
    /\ hist = << >>
    /\ last = NoReturn

NextTbRedis ==
    \/ Tick
    \/ \E id \in Ids, t \in ClockReadings, fault \in Faults({"script"}) :
            TbRedisAllow(id, t, fault)

SpecTbRedis == InitTbRedis /\ [][NextTbRedis]_vars

\* C6: after every verdict the stored token count is within 0..capacity,
\* whatever the order of the clients' timestamps.
C6_TokensWithinCapacity ==
    \A id \in DOMAIN redis :
        0 <= redis[id].val.tokens /\ redis[id].val.tokens <= cfg.capacity

\* C18: the stored last_refill_time of an identifier never decreases from one
\* verdict to the next, whatever timestamps the clients supply.
C18_LastRefillMonotone ==
    [][\A id \in DOMAIN redis \cap DOMAIN redis' :
          redis'[id].val.last_refill_time >= redis[id].val.last_refill_time]_vars

\* C21: with rate = 1 per second and capacity = 2, the requests of a fresh
\* identifier at 0 s, 0 s, an instant within the first second (0.1 s in the
\* scenario) and 1 s are Allowed, Allowed, Denied, Allowed.
C21_RefillScenario ==
    (cfg.rate = 1 /\ cfg.capacity = 2 /\ cfg.skew = 0) =>
    \A id \in Ids :
        LET h == VerdictsOf(id)
        IN (/\ Len(h) >= 4
            /\ h[1].t = 0 /\ h[2].t = 0
            /\ 0 < h[3].t /\ h[3].t < TicksPerSec
            /\ h[4].t = TicksPerSec) =>
               (h[1].allowed /\ h[2].allowed /\ ~h[3].allowed /\ h[4].allowed)

\* C26: tokens accrue continuously.  Of two verdicts of one identifier that are
\* at least the time of one token (1/rate seconds) apart, with only Denied
\* verdicts between them, the later one is Allowed: the time that passes while
\* requests are denied is not discarded, however closely they are spaced.
C26_ContinuousAccrual ==
    cfg.skew = 0 =>
    \A id \in Ids :
        LET h == VerdictsOf(id)
        IN \A i, j \in DOMAIN h :
              (/\ i < j
               /\ (h[j].t - h[i].t) * cfg.rate >= TicksPerSec
               /\ \A k \in (i + 1)..(j - 1) : ~h[k].allowed) => h[j].allowed

\* -------------------------------------------------- token bucket, Memcached

Idle == [pc |-> "idle"]

AllIdle == [c \in Clients |-> Idle]

InFlight == {c \in DOMAIN clients : clients[c].pc # "idle"}

\* A cache miss (memcache.ErrCacheMiss, item == nil).
Miss == [miss |-> TRUE]

McGet(db, key) == IF Has(db, key) THEN db[key].val ELSE Miss

\* The state Allow starts from: the stored one, or a full bucket stamped with
\* the caller's clock on a miss.
TbMcLoad(item, t, capacity) ==
    IF item = Miss THEN [Tokens |-> capacity, LastRefill |-> t] ELSE item

\* refillAmount := int64(float64(l.rate) * elapsed.Seconds())
TbMcRefill(state, t, rate, capacity) ==
    LET refillAmount == TruncDiv((t - state.LastRefill) * rate, TicksPerSec)
    IN [Tokens |-> Min(state.Tokens + refillAmount, capacity), LastRefill |-> t]

\* Everything Allow computes between its Get and its Set.
TbMcDecide(item, t, rate, capacity) ==
    LET state == TbMcRefill(TbMcLoad(item, t, capacity), t, rate, capacity)
    IN IF state.Tokens >= 1
       THEN [state |-> [state EXCEPT !.Tokens = @ - 1], allowed |-> TRUE]
       ELSE [state |-> state, allowed |-> FALSE]

\* l.client.Get(itemKey)
TbMcGetStep(c, id, fault) ==
    /\ clients[c].pc = "idle"
    /\ Len(hist) + Cardinality(InFlight) < MaxCalls
    /\ IF fault = "get"
       THEN /\ last' = Return(id, FALSE, "get", "get")
            /\ UNCHANGED clients
       ELSE /\ clients' = [clients EXCEPT ![c] =
                              [pc |-> "got", id |-> id, item |-> McGet(memcache, id)]]
            /\ UNCHANGED last
    /\ UNCHANGED <<cfg, now, mem, redis, memcache, hist>>

\* The rest of Allow: decode, refill, decide, and l.client.Set (no expiration).
\* fault: "unmarshal" (the stored value does not decode), "set" (Set fails).
TbMcSetStep(c, t, fault) ==
    /\ clients[c].pc = "got"
    /\ LET id == clients[c].id
           d == TbMcDecide(clients[c].item, t, cfg.rate, cfg.capacity)
       IN IF fault # "none"
          THEN /\ last' = Return(id, FALSE, fault, fault)
               /\ UNCHANGED <<memcache, hist>>
          ELSE /\ memcache' = Put(memcache, id, [val |-> d.state, exp |-> NoExp])
               /\ hist' = Append(hist, Verdict(id, t, d.allowed, d.state.Tokens))
               /\ last' = Return(id, d.allowed, "", "none")
    /\ clients' = [clients EXCEPT ![c] = Idle]
    /\ UNCHANGED <<cfg, now, mem, redis>>

InitTbMemcache ==
    /\ cfg \in TbRemoteConfigs
    /\ now = 0
    /\ mem = Empty
    /\ redis = Empty
    /\ memcache = Empty
    /\ clients = AllIdle
    /\ hist = << >>
    /\ last = NoReturn

NextTbMemcache ==
    \/ Tick
    \/ \E c \in Clients, id \in Ids, fault \in Faults({"get"}) : TbMcGetStep(c, id, fault)
    \/ \E c \in Clients, t \in ClockReadings, fault \in Faults({"unmarshal", "set"}) :
            TbMcSetStep(c, t, fault)

SpecTbMemcache == InitTbMemcache /\ [][NextTbMemcache]_vars

\* C5: per identifier, the Allowed verdicts between any two of them number at
\* most capacity + D * rate, D being the time between the two in seconds
\* (stated for clients whose clocks agree, where the time of a verdict is
\* unambiguous).
C5_TokenConservation ==
    cfg.skew = 0 =>
    \A id \in Ids : \A i, j \in AllowedCalls(id) :
        hist[i].t <= hist[j].t =>
            (Cardinality({k \in AllowedCalls(id) :
                            hist[i].t <= hist[k].t /\ hist[k].t <= hist[j].t})
                - cfg.capacity) * TicksPerSec
              <= (hist[j].t - hist[i].t) * cfg.rate

\* The orders in which the calls in S can be taken one after another.
Orders(S) ==
    {o \in [1..Cardinality(S) -> S] : \A a, b \in DOMAIN o : a # b => o[a] # o[b]}

\* The calls of order o run one at a time, each with the clock value it used,
\* from item `item`, starting at position n: do they return the verdicts of
\* hist and leave `final`?
RECURSIVE TbMcReplays(_, _, _, _)
TbMcReplays(o, n, item, final) ==
    IF n > Len(o) THEN item = final
    ELSE LET d == TbMcDecide(item, hist[o[n]].t, cfg.rate, cfg.capacity)
         IN /\ d.allowed = hist[o[n]].allowed
            /\ TbMcReplays(o, n + 1, d.state, final)

\* C8: when no call is in flight, the verdicts returned for an identifier and
\* its stored state are those of the same calls taken one at a time in some
\* order.
C8_Linearisable ==
    InFlight = {} =>
    \A id \in Ids :
        Calls(id) # {} =>
            \E o \in Orders(Calls(id)) : TbMcReplays(o, 1, Miss, McGet(memcache, id))

\* ------------------------------------------- token bucket, on every backend
\* One token bucket limiter on one of its three backends, its callers taking
\* turns: a call starts when the previous one has returned, and all callers
\* read one clock.

TbBackends == {"inmemory", "redis", "memcache"}

\* A policy together with the backend the limiter was built on.
Deployed(p, b) ==
    [window |-> p.window, limit |-> p.limit, rate |-> p.rate,
     capacity |-> p.capacity, skew |-> p.skew, faults |-> p.faults, backend |-> b]

TbDeployments ==
    {Deployed(p, "inmemory") : p \in TbConfigs}
        \cup {Deployed(p, b) : p \in {q \in TbRemoteConfigs : q.skew = 0},
                               b \in TbBackends \ {"inmemory"}}

InitTb ==
    /\ cfg \in TbDeployments
    /\ now = 0
    /\ mem = Empty
    /\ redis = Empty
    /\ memcache = Empty
    /\ clients = AllIdle
    /\ hist = << >>
    /\ last = NoReturn

NextTb ==
    \/ Tick
    \/ /\ cfg.backend = "inmemory"
       /\ \E id \in Ids, ctxDone \in BOOLEAN : TbInMemAllow(id, ctxDone)
    \/ /\ cfg.backend = "redis"
       /\ \E id \in Ids, t \in ClockReadings, fault \in Faults({"script"}) :
               TbRedisAllow(id, t, fault)
    \/ /\ cfg.backend = "memcache"
       /\ InFlight = {}
       /\ \E c \in Clients, id \in Ids, fault \in Faults({"get"}) :
               TbMcGetStep(c, id, fault)
    \/ /\ cfg.backend = "memcache"
       /\ \E c \in Clients, t \in ClockReadings, fault \in Faults({"unmarshal", "set"}) :
               TbMcSetStep(c, t, fault)

SpecTb == InitTb /\ [][NextTb]_vars

\* The first n verdicts of an identifier were all taken at one instant.
SameInstant(h, n) == \A j \in 1..n : h[j].t = h[1].t

\* C16: the first verdict of an identifier finds a full bucket: of its first
\* verdicts, taken with no time elapsing, exactly the first capacity ones are
\* Allowed and the next is Denied, on every backend.
C16_NewBucketFull ==
    \A id \in Ids :
        LET h == VerdictsOf(id)
        IN \A k \in 1..Len(h) :
               SameInstant(h, k) => (h[k].allowed <=> k <= cfg.capacity)

\* A burst of capacity Allowed verdicts and then a Denied one at the same
\* instant, on Memcached.
C16_Witness ==
    /\ cfg.backend = "memcache"
    /\ \E id \in Ids :
           LET h == VerdictsOf(id)
           IN /\ Len(h) > cfg.capacity
              /\ SameInstant(h, cfg.capacity + 1)
              /\ \A k \in 1..cfg.capacity : h[k].allowed
              /\ ~h[cfg.capacity + 1].allowed

\* ------------------------------------------------ fixed window, Memcached

\* The window is the life of the key: Add creates the counter at 1 with the
\* expiry, Increment counts in it.  The clients' calls interleave between the
\* two operations.

\* l.client.Add(item): stores the item unless the key exists (ErrNotStored).
\* fault: "add" when Add fails with another error.
FcMcAddStep(c, id, fault) ==
    /\ clients[c].pc = "idle"
    /\ Len(hist) + Cardinality(InFlight) < MaxCalls
    /\ IF fault = "add"
       THEN /\ last' = Return(id, FALSE, "add", "add")
            /\ UNCHANGED <<memcache, clients, hist>>
       ELSE IF Has(memcache, id)
       THEN /\ clients' = [clients EXCEPT ![c] = [pc |-> "notstored", id |-> id]]
            /\ UNCHANGED <<memcache, hist, last>>
       ELSE /\ memcache' = Put(memcache, id,
                               [val |-> 1,
                                exp |-> now + FcExpirySeconds(cfg.window) * TicksPerSec])
            /\ hist' = Append(hist, Verdict(id, now, 1 <= cfg.limit, 0))
            /\ last' = Return(id, 1 <= cfg.limit, "", "none")
            /\ UNCHANGED clients
    /\ UNCHANGED <<cfg, now, mem, redis>>

\* l.client.Increment(memcacheKey, 1), which fails on a key that has expired
\* since the Add (or with fault "increment"), and the count check.
FcMcIncrementStep(c, fault) ==
    /\ clients[c].pc = "notstored"
    /\ LET id == clients[c].id
       IN IF fault = "increment" \/ ~Has(memcache, id)
          THEN /\ last' = Return(id, FALSE, "increment", "increment")
               /\ UNCHANGED <<memcache, hist>>
          ELSE LET count == memcache[id].val + 1
               IN /\ memcache' = [memcache EXCEPT ![id].val = count]
                  /\ hist' = Append(hist, Verdict(id, now, count <= cfg.limit, 0))
                  /\ last' = Return(id, count <= cfg.limit, "", "none")
    /\ clients' = [clients EXCEPT ![c] = Idle]
    /\ UNCHANGED <<cfg, now, mem, redis>>

\* ------------------------------------- fixed window on Redis or Memcached

FcBackends == {"redis", "memcache"}

FcDeployments == {Deployed(p, b) : p \in FcRedisConfigs, b \in FcBackends}

InitFc ==
    /\ cfg \in FcDeployments
    /\ now = 0
    /\ mem = Empty
    /\ redis = Empty
    /\ memcache = Empty
    /\ clients = AllIdle
    /\ hist = << >>
    /\ last = NoReturn

NextFc ==
    \/ Tick
    \/ /\ cfg.backend = "redis"
       /\ \E id \in Ids, t \in ClockReadings, fault \in Faults({"script"}) :
               FcRedisAllow(id, t, fault)
    \/ /\ cfg.backend = "memcache"
       /\ \E c \in Clients, id \in Ids, fault \in Faults({"add"}) :
               FcMcAddStep(c, id, fault)
    \/ /\ cfg.backend = "memcache"
       /\ \E c \in Clients, fault \in Faults({"increment"}) :
               FcMcIncrementStep(c, fault)

SpecFc == InitFc /\ [][NextFc]_vars

\* The stored counter of the window of verdict v: the hash field of the window
\* on Redis, the key's value on Memcached; 0 when there is none.
FcStoredCount(r, m, v) ==
    IF cfg.backend = "redis"
    THEN (IF Has(r, v.id) /\ Has(r[v.id].val, v.info) THEN r[v.id].val[v.info] ELSE 0)
    ELSE (IF Has(m, v.id) THEN m[v.id].val ELSE 0)

\* C31: every step that returns a verdict, Allowed or Denied, raises the counter
\* of the verdict's window by exactly one, and the verdict is Allowed iff the
\* counter after the increment is at most limit.
C31_EveryVerdictCounts ==
    [][Len(hist') = Len(hist) + 1 =>
          LET v == hist'[Len(hist')]
          IN /\ FcStoredCount(redis', memcache', v) = FcStoredCount(redis, memcache, v) + 1
             /\ v.allowed <=> FcStoredCount(redis', memcache', v) <= cfg.limit]_vars

\* C31's case: on Memcached a request has just been Denied and the counter
\* stands above limit.
C31_Witness ==
    /\ cfg.backend = "memcache"
    /\ Len(hist) > 0 /\ ~hist[Len(hist)].allowed
    /\ Has(memcache, hist[Len(hist)].id)
    /\ memcache[hist[Len(hist)].id].val > cfg.limit

\* C38: on a healthy Memcached server every call of Allow returns a verdict
\* and not an error, under any interleaving of the callers and key expiry.
C38_HealthyServerNoError ==
    (cfg.backend = "memcache" /\ ~cfg.faults) => last.err = ""

\* The Redis fixed-window limiter with a window shorter than one second.
SubSecondWindows == 1..(TicksPerSec - 1)

InitFcRedisSubSecond ==
    /\ cfg \in {Policy(w, l, 0, 0, 0, FALSE) : w \in SubSecondWindows, l \in 1..MaxLimit}
    /\ now = 0
    /\ mem = Empty
    /\ redis = Empty
    /\ memcache = Empty
    /\ clients = Empty
    /\ hist = << >>
    /\ last = NoReturn

SpecFcRedisSubSecond == InitFcRedisSubSecond /\ [][NextFcRedis]_vars

\* C37: the hash of an identifier stays bounded: the counters of past windows
\* are removed, so the hash never holds more fields than the windows that can
\* begin within one expiry period, whatever the request pattern.
C37_HashStaysBounded ==
    \A id \in DOMAIN redis :
        Cardinality(DOMAIN redis[id].val)
            <= CeilDiv(FcExpirySeconds(cfg.window) * TicksPerSec, cfg.window) + 1

\* --------------------------------------------------- leaky bucket, in memory
\* Levels are float64 in the code; the model counts them in units of
\* 1/TicksPerSec, which holds every value a whole rate produces in whole ticks.

LbConfigs == {Policy(0, 0, r, c, 0, FALSE) : r \in Rates, c \in 1..MaxLimit}

\* NewLimiter: one level and one lastLeak for the whole limiter.
LbNewLimiter(t) == [currentLevel |-> 0, lastLeak |-> t]

LbInMemDecideOff(l, t, rate, capacity) ==
    LET leakedAmount == (t - l.lastLeak) * rate
        level == Max(0, l.currentLevel - leakedAmount)
    IN IF level + TicksPerSec < capacity * TicksPerSec
       THEN [state |-> [currentLevel |-> level + TicksPerSec, lastLeak |-> t],
             allowed |-> TRUE]
       ELSE [state |-> [currentLevel |-> level, lastLeak |-> t], allowed |-> FALSE]

\* The body of Allow; the identifier takes no part in it.
LbInMemDecide(l, t, rate, capacity) ==
    LET leakedAmount == (t - l.lastLeak) * rate
        level == Max(0, l.currentLevel - leakedAmount)
    IN IF level + TicksPerSec <= capacity * TicksPerSec
       THEN [state |-> [currentLevel |-> level + TicksPerSec, lastLeak |-> t],
             allowed |-> TRUE]
       ELSE [state |-> [currentLevel |-> level, lastLeak |-> t], allowed |-> FALSE]

\* ctxDone: the caller's context is already cancelled; Allow never reads ctx.
LbInMemAllow(id, ctxDone) ==
    /\ Len(hist) < MaxCalls
    /\ LET d == LbInMemDecide(mem, now, cfg.rate, cfg.capacity)
       IN /\ mem' = d.state
          /\ hist' = Append(hist, Verdict(id, now, d.allowed, d.state.currentLevel))
          /\ last' = Return(id, d.allowed, "", "none")
    /\ UNCHANGED <<cfg, now, redis, memcache, clients>>

InitLbInMem ==
    /\ cfg \in LbConfigs
    /\ now = 0
    /\ mem = LbNewLimiter(0)
    /\ redis = Empty
    /\ memcache = Empty
    /\ clients = Empty
    /\ hist = << >>
    /\ last = NoReturn

NextLbInMem ==
    \/ Tick
    \/ \E id \in Ids, ctxDone \in BOOLEAN : LbInMemAllow(id, ctxDone)

SpecLbInMem == InitLbInMem /\ [][NextLbInMem]_vars

\* The verdicts hist holds for `id` from position n on are the ones a limiter
\* in state l returns when it receives the calls for `id` only, at their times.
RECURSIVE LbInMemAlone(_, _, _)
LbInMemAlone(id, n, l) ==
    IF n > Len(hist) THEN TRUE
    ELSE IF hist[n].id # id THEN LbInMemAlone(id, n + 1, l)
    ELSE LET d == LbInMemDecide(l, hist[n].t, cfg.rate, cfg.capacity)
         IN d.allowed = hist[n].allowed /\ LbInMemAlone(id, n + 1, d.state)

\* C1: the verdicts returned for an identifier are those it would get had the
\* calls for the other identifiers never been made.
C1_Isolation == \A id \in Ids : LbInMemAlone(id, 1, LbNewLimiter(0))

\* C11: an Allow call whose context is already cancelled returns the context's
\* error with allowed = false, and no verdict.
C11_CancelledReturnsError ==
    [][\A id \in Ids :
          LbInMemAllow(id, TRUE) =>
              (last'.err = "ctx" /\ ~last'.allowed /\ hist' = hist)]_vars

\* ------------------------------------------------------ leaky bucket, Redis

\* The Lua script: GET and cjson.decode, leak, admit, cjson.encode and SET
\* (no expiry).
LbRedisScript(db, key, capacity, rate, t) ==
    LET old == IF Has(db, key) THEN db[key].val
               ELSE [currentLevel |-> 0, lastLeak |-> t]
        leakedAmount == (t - old.lastLeak) * rate
        level == Max(0, old.currentLevel - leakedAmount)
        allowed == level + TicksPerSec <= capacity * TicksPerSec
        newState == [currentLevel |-> IF allowed THEN level + TicksPerSec ELSE level,
                     lastLeak |-> t]
    IN [db |-> Put(db, key, [val |-> newState, exp |-> NoExp]),
        result |-> IF allowed THEN 1 ELSE 0]

LbRedisAllow(id, t, fault) ==
    /\ Len(hist) < MaxCalls
    /\ LET r == LbRedisScript(redis, id, cfg.capacity, cfg.rate, t)
       IN IF fault = "script"
          THEN /\ UNCHANGED <<redis, hist>>
               /\ last' = Return(id, FALSE, "script", "script")
          ELSE /\ redis' = r.db
               /\ hist' = Append(hist, Verdict(id, t, r.result = 1,
                                               r.db[id].val.currentLevel))
               /\ last' = Return(id, r.result = 1, "", "none")
    /\ UNCHANGED <<cfg, now, mem, memcache, clients>>

InitLbRedis == InitTbRedis

NextLbRedis ==
    \/ Tick
    \/ \E id \in Ids, t \in ClockReadings, fault \in Faults({"script"}) :
            LbRedisAllow(id, t, fault)

SpecLbRedis == InitLbRedis /\ [][NextLbRedis]_vars

\* C7: after every verdict the stored level is within 0..capacity, whatever
\* the order of the clients' timestamps.
C7_LevelWithinCapacity ==
    \A id \in DOMAIN redis :
        /\ 0 <= redis[id].val.currentLevel
        /\ redis[id].val.currentLevel <= cfg.capacity * TicksPerSec

\* C19: every key a verdict writes carries a finite expiry.
C19_KeysExpire == \A id \in DOMAIN redis : redis[id].exp # NoExp

\* ------------------------------------------- leaky bucket, on both backends
\* One leaky bucket limiter, in memory or on Redis, all callers reading one
\* clock.

LbBackends == {"inmemory", "redis"}

LbDeployments ==
    {Deployed(p, "inmemory") : p \in LbConfigs}
        \cup {Deployed(p, "redis") : p \in {q \in TbRemoteConfigs : q.skew = 0}}

InitLb ==
    /\ cfg \in LbDeployments
    /\ now = 0
    /\ mem = LbNewLimiter(0)
    /\ redis = Empty
    /\ memcache = Empty
    /\ clients = Empty
    /\ hist = << >>
    /\ last = NoReturn

NextLb ==
    \/ Tick
    \/ /\ cfg.backend = "inmemory"
       /\ \E id \in Ids, ctxDone \in BOOLEAN : LbInMemAllow(id, ctxDone)
    \/ /\ cfg.backend = "redis"
       /\ \E id \in Ids, t \in ClockReadings, fault \in Faults({"script"}) :
               LbRedisAllow(id, t, fault)

SpecLb == InitLb /\ [][NextLb]_vars

\* The verdicts h[n], h[n+1], ... follow the leaky bucket rule from the level
\* `level` last leaked at `lastLeak` (levels in units of 1/TicksPerSec): leak
\* D * rate for the time D since lastLeak, not below 0; Allowed, adding 1, iff
\* the leaked level + 1 <= capacity; Denied leaves the leaked level.
RECURSIVE LbFollowsRule(_, _, _, _)
LbFollowsRule(h, n, level, lastLeak) ==
    IF n > Len(h) THEN TRUE
    ELSE LET leaked == Max(0, level - (h[n].t - lastLeak) * cfg.rate)
             fits == leaked + TicksPerSec <= cfg.capacity * TicksPerSec
         IN /\ h[n].allowed = fits
            /\ h[n].info = (IF fits THEN leaked + TicksPerSec ELSE leaked)
            /\ LbFollowsRule(h, n + 1, h[n].info, h[n].t)

\* The verdicts of the in-memory limiter l for requests at times[n], times[n+1], ...
RECURSIVE LbInMemRun(_, _, _, _, _)
LbInMemRun(l, times, n, rate, capacity) ==
    IF n > Len(times) THEN << >>
    ELSE LET d == LbInMemDecide(l, times[n], rate, capacity)
         IN <<d.allowed>> \o LbInMemRun(d.state, times, n + 1, rate, capacity)

\* The same for the Redis script on keyspace db, for one identifier.
RECURSIVE LbRedisRun(_, _, _, _, _)
LbRedisRun(db, times, n, rate, capacity) ==
    IF n > Len(times) THEN << >>
    ELSE LET r == LbRedisScript(db, "A", capacity, rate, times[n])
         IN <<r.result = 1>> \o LbRedisRun(r.db, times, n + 1, rate, capacity)

\* C17: every verdict leaks max(0, level - D * rate) and is then Allowed, adding
\* exactly 1, iff level + 1 <= capacity, a Denied verdict leaving the leaked
\* level; and with rate = 2, capacity = 3 the verdicts are Allowed x3, Denied at
\* 0 s and Allowed, Allowed, Denied at 1 s.
C17_LeakThenAdmit ==
    LET times == <<0, 0, 0, 0, TicksPerSec, TicksPerSec, TicksPerSec>>
        verdicts == <<TRUE, TRUE, TRUE, FALSE, TRUE, TRUE, FALSE>>
    IN
    /\ cfg.backend = "inmemory" =>
           /\ LbFollowsRule(hist, 1, 0, 0)
           /\ hist # << >> => mem.currentLevel = hist[Len(hist)].info
    /\ cfg.backend = "redis" =>
           \A id \in Ids :
               LET h == VerdictsOf(id)
               IN h # << >> =>
                      /\ LbFollowsRule(h, 1, 0, h[1].t)
                      /\ redis[id].val.currentLevel = h[Len(h)].info
    /\ LbInMemRun(LbNewLimiter(0), times, 1, 2, 3) = verdicts
    /\ LbRedisRun(Empty, times, 1, 2, 3) = verdicts

\* On Redis, a verdict Allowed after a leak from a bucket that was not empty,
\* and a Denied verdict.
C17_Witness ==
    /\ cfg.backend = "redis"
    /\ \E id \in Ids :
           LET h == VerdictsOf(id)
           IN /\ \E k \in 2..Len(h) :
                     h[k].t > h[k - 1].t /\ h[k - 1].info > 0 /\ h[k].allowed
              /\ \E k \in 1..Len(h) : ~h[k].allowed

\* -------------------------------------------- sliding window log, Memcached
\* The stored value is the JSON of requestTimestamps: the admitted requests'
\* timestamps (int64 milliseconds, which encoding/json writes and reads back
\* exactly).

\* The clients and the server run on one host here: their clocks agree.
SwMcConfigs ==
    {Policy(w, l, 0, 0, 0, faults) : w \in Windows, l \in 1..MaxLimit, faults \in BOOLEAN}

\* expirySeconds := int32(l.windowSize.Seconds()), at least 1; in ticks.
SwMcExpiry(window) == Max(1, window \div TicksPerSec) * TicksPerSec

RECURSIVE Insert(_, _)
Insert(x, sorted) ==
    IF sorted = << >> THEN <<x>>
    ELSE IF x <= Head(sorted) THEN <<x>> \o sorted
    ELSE <<Head(sorted)>> \o Insert(x, Tail(sorted))

\* sort.Slice(validTimestamps, less)
RECURSIVE SortSlice(_)
SortSlice(ts) == IF ts = << >> THEN << >> ELSE Insert(Head(ts), SortSlice(Tail(ts)))

\* The timestamps Allow keeps: those not older than the window, sorted.
SwMcPrune(item, t, window) ==
    LET Valid(ts) == ts >= t - window
    IN SortSlice(SelectSeq(IF item = Miss THEN << >> ELSE item.Timestamps, Valid))

\* Everything Allow computes between its Get and its Set.
SwMcDecide(item, t, window, limit) ==
    LET validTimestamps == SwMcPrune(item, t, window)
    IN IF Len(validTimestamps) < limit
       THEN [state |-> Append(validTimestamps, t), allowed |-> TRUE]
       ELSE [state |-> validTimestamps, allowed |-> FALSE]

\* A failed Set answered with an error.
SwMcSaveFailedOff(id) == Return(id, FALSE, "set", "set")

\* What Allow returns when the Set of an admitted request fails: the failure is
\* logged and the call returns true, nil.
SwMcSaveFailed(id) == Return(id, TRUE, "", "set")

\* now := l.nowFunc() and l.client.Get(memcacheKey)
SwMcGetStep(c, id, t, fault) ==
    /\ clients[c].pc = "idle"
    /\ Len(hist) + Cardinality(InFlight) < MaxCalls
    /\ IF fault = "get"
       THEN /\ last' = Return(id, FALSE, "get", "get")
            /\ UNCHANGED clients
       ELSE /\ clients' = [clients EXCEPT ![c] =
                              [pc |-> "got", id |-> id, t |-> t,
                               item |-> McGet(memcache, id)]]
            /\ UNCHANGED last
    /\ UNCHANGED <<cfg, now, mem, redis, memcache, hist>>

\* The rest of Allow. fault: "unmarshal" (a stored value that does not decode),
\* "set" (the Set of an admitted request fails: logged, and true is returned).
SwMcSetStep(c, fault) ==
    /\ clients[c].pc = "got"
    /\ LET id == clients[c].id
           t == clients[c].t
           d == SwMcDecide(clients[c].item, t, cfg.window, cfg.limit)
       IN /\ fault = "unmarshal" => clients[c].item # Miss
          /\ fault = "set" => d.allowed
          /\ IF fault = "unmarshal"
             THEN /\ last' = Return(id, FALSE, "unmarshal", "unmarshal")
                  /\ UNCHANGED <<memcache, hist>>
             ELSE /\ memcache' =
                        IF d.allowed /\ fault = "none"
                        THEN Put(memcache, id,
                                 [val |-> [Timestamps |-> d.state],
                                  exp |-> now + SwMcExpiry(cfg.window)])
                        ELSE memcache
                  /\ hist' = Append(hist, Verdict(id, t, d.allowed, Len(d.state)))
                  /\ last' = IF fault = "set" THEN SwMcSaveFailed(id)
                             ELSE Return(id, d.allowed, "", "none")
    /\ clients' = [clients EXCEPT ![c] = Idle]
    /\ UNCHANGED <<cfg, now, mem, redis>>

InitSwMemcache ==
    /\ cfg \in SwMcConfigs
    /\ now = 0
    /\ mem = Empty
    /\ redis = Empty
    /\ memcache = Empty
    /\ clients = AllIdle
    /\ hist = << >>
    /\ last = NoReturn

NextSwMemcache ==
    \/ Tick
    \/ \E c \in Clients, id \in Ids, t \in ClockReadings, fault \in Faults({"get"}) :
            SwMcGetStep(c, id, t, fault)
    \/ \E c \in Clients, fault \in Faults({"unmarshal", "set"}) : SwMcSetStep(c, fault)

SpecSwMemcache == InitSwMemcache /\ [][NextSwMemcache]_vars

\* C9: per identifier, every interval of length window_duration holds at most
\* limit Allowed verdicts, under any interleaving of the clients and any
\* timing of key expiry (stated for a healthy server).
C9_ExactSlidingWindow ==
    ~cfg.faults =>
    \A id \in Ids : \A i \in AllowedCalls(id) :
        Cardinality({j \in AllowedCalls(id) :
                        hist[i].t - cfg.window < hist[j].t /\ hist[j].t <= hist[i].t})
            <= cfg.limit

\* C22: a verdict writes its timestamp list with compare-and-swap: the write
\* takes effect only if the stored value is still the one the verdict read
\* (otherwise the verdict retries or fails with BackendContention).
C22_WritesCompareAndSwap ==
    [][\A c \in Clients :
          (SwMcSetStep(c, "none") /\ memcache' # memcache) =>
              McGet(memcache, clients[c].id) = clients[c].item]_vars

\* C10: a call during which a backend operation failed returns a non-nil
\* error and allowed = false.
C10_FailureIsAnError == last.failed # "none" => (last.err # "" /\ ~last.allowed)

\* --------------------------------------------- sliding window counter, Redis

\* The script up to its limit check: the counter it would store and whether the
\* request is allowed.  Timestamps are epoch milliseconds and never 0, so the 0
\* that the script reads for a missing field means that the key is not there.
SwRedisCompute(db, key, t, windowSizeMillis, limit) ==
    LET isNew == ~Has(db, key)
        old == IF isNew THEN [pc |-> 0, cc |-> 0, cws |-> 0] ELSE db[key].val
        timeSinceWindowStart == t - old.cws
        shifted ==
            IF isNew \/ t - old.cws >= windowSizeMillis * 2
            THEN [pc |-> 0, cc |-> 1, cws |-> Truncate(t, windowSizeMillis)]
            ELSE IF timeSinceWindowStart >= windowSizeMillis
                 THEN [pc |-> IF timeSinceWindowStart < 2 * windowSizeMillis
                              THEN old.cc ELSE 0,
                       cc |-> 1,
                       cws |-> Truncate(t, windowSizeMillis)]
                 ELSE [old EXCEPT !.cc = @ + 1]
        forWeight == Min(Max(t - shifted.cws, 0), windowSizeMillis)
        \* totalRequests multiplied by windowSizeMillis
        totalRequests == forWeight * shifted.cc
                           + (windowSizeMillis - forWeight) * shifted.pc
    IN [state |-> shifted, allowed |-> totalRequests < limit * windowSizeMillis]

\* The script writing the counter on a denial too.
SwRedisScriptOff(db, key, t, windowSizeMillis, limit) ==
    LET d == SwRedisCompute(db, key, t, windowSizeMillis, limit)
    IN [db |-> Put(db, key, [val |-> d.state, exp |-> now + 3 * windowSizeMillis]),
        result |-> IF d.allowed THEN 1 ELSE 0,
        state |-> d.state]

\* The Lua script: HMSET and PEXPIRE (3 windows) when allowed, nothing otherwise.
SwRedisScript(db, key, t, windowSizeMillis, limit) ==
    LET d == SwRedisCompute(db, key, t, windowSizeMillis, limit)
    IN [db |-> IF d.allowed
               THEN Put(db, key, [val |-> d.state, exp |-> now + 3 * windowSizeMillis])
               ELSE db,
        result |-> IF d.allowed THEN 1 ELSE 0,
        state |-> d.state]

\* fault: "none", or "script" when Run returns an error and nothing was executed.
SwRedisAllow(id, t, fault) ==
    /\ Len(hist) < MaxCalls
    /\ LET r == SwRedisScript(redis, id, t, cfg.window, cfg.limit)
       IN IF fault = "script"
          THEN /\ UNCHANGED <<redis, hist>>
               /\ last' = Return(id, FALSE, "script", "script")
          ELSE /\ redis' = r.db
               /\ hist' = Append(hist, Verdict(id, t, r.result = 1, r.state.cws))
               /\ last' = Return(id, r.result = 1, "", "none")
    /\ UNCHANGED <<cfg, now, mem, memcache, clients>>

\* ------------------------------- sliding window on Redis or Memcached
\* One sliding-window limiter on Redis (counter) or Memcached (log), its
\* callers taking turns and reading one clock.

SwBackends == {"redis", "memcache"}

\* The backends answer every operation here.
SwDeployments ==
    {Deployed(p, b) : p \in {q \in SwMcConfigs : ~q.faults}, b \in SwBackends}

InitSw ==
    /\ cfg \in SwDeployments
    /\ now = 0
    /\ mem = Empty
    /\ redis = Empty
    /\ memcache = Empty
    /\ clients = AllIdle
    /\ hist = << >>
    /\ last = NoReturn

NextSw ==
    \/ Tick
    \/ /\ cfg.backend = "redis"
       /\ \E id \in Ids, t \in ClockReadings : SwRedisAllow(id, t, "none")
    \/ /\ cfg.backend = "memcache"
       /\ InFlight = {}
       /\ \E c \in Clients, id \in Ids, t \in ClockReadings :
               SwMcGetStep(c, id, t, "none")
    \/ /\ cfg.backend = "memcache"
       /\ \E c \in Clients : SwMcSetStep(c, "none")

SpecSw == InitSw /\ [][NextSw]_vars

\* C34: a step that returns a Denied verdict writes nothing: the keys, their
\* values and their expiries on Redis and on Memcached are as before the call.
C34_DeniedWritesNothing ==
    [][(Len(hist') = Len(hist) + 1 /\ ~hist'[Len(hist')].allowed) =>
          (redis' = redis /\ memcache' = memcache)]_vars

\* C34's case: a request has just been Denied on Redis against a stored counter.
C34_Witness ==
    /\ cfg.backend = "redis"
    /\ Len(hist) > 0 /\ ~hist[Len(hist)].allowed
    /\ Has(redis, hist[Len(hist)].id)

\* The Memcached sliding-window log on a server that answers the reads and may
\* refuse the writes, called by one client, one call after another.
InitSwSetFails ==
    /\ cfg \in {p \in SwMcConfigs : p.faults}
    /\ now = 0
    /\ mem = Empty
    /\ redis = Empty
    /\ memcache = Empty
    /\ clients = AllIdle
    /\ hist = << >>
    /\ last = NoReturn

NextSwSetFails ==
    \/ Tick
    \/ /\ InFlight = {}
       /\ \E id \in Ids, t \in ClockReadings : SwMcGetStep("c1", id, t, "none")
    \/ \E c \in Clients, fault \in Faults({"set"}) : SwMcSetStep(c, fault)

SpecSwSetFails == InitSwSetFails /\ [][NextSwSetFails]_vars

\* C35: when a request passes the limit check and the Set of the updated
\* timestamp list fails, Allow returns allowed = true with a nil error (and
\* nothing is stored).
C35_SetFailureStillAllows ==
    [][\A c \in Clients :
          SwMcSetStep(c, "set") =>
              (/\ last'.allowed /\ last'.err = ""
               /\ hist'[Len(hist')].allowed
               /\ memcache' = memcache)]_vars

\* C35's case: the last call was allowed although its Set failed, and its
\* timestamp is not in the stored list.
C35_Witness ==
    /\ last.failed = "set" /\ last.allowed
    /\ Len(hist) > 0 /\ hist[Len(hist)].id = last.id
    /\ ~Has(memcache, last.id)

\* --------------------------------------------------- key expiry on Redis
\* The Redis token bucket and the Redis sliding-window counter on a server
\* that runs long enough for their keys to expire (the clock advances up to
\* SwHorizon) and that answers every call.

RedisAlgorithms == {"token_bucket", "sliding_window_counter"}

\* A policy together with the algorithm of the limiter.
Configured(p, a) ==
    [window |-> p.window, limit |-> p.limit, rate |-> p.rate,
     capacity |-> p.capacity, skew |-> p.skew, faults |-> p.faults, algorithm |-> a]

RedisExpiryConfigs ==
    {Configured(p, "token_bucket") : p \in {q \in TbRemoteConfigs : ~q.faults}}
        \cup {Configured(p, "sliding_window_counter") :
                  p \in {q \in FcRedisConfigs : ~q.faults}}

\* The server's clock advances and it drops the keys that expire.
RedisTick ==
    /\ now < SwHorizon
    /\ now' = now + 1
    /\ redis' = Unexpired(redis, now + 1)
    /\ UNCHANGED <<cfg, mem, memcache, clients, hist, last>>

InitRedisExpiry ==
    /\ cfg \in RedisExpiryConfigs
    /\ now = 0
    /\ mem = Empty
    /\ redis = Empty
    /\ memcache = Empty
    /\ clients = Empty
    /\ hist = << >>
    /\ last = NoReturn

NextRedisExpiry ==
    \/ RedisTick
    \/ /\ cfg.algorithm = "token_bucket"
       /\ \E id \in Ids, t \in ClockReadings : TbRedisAllow(id, t, "none")
    \/ /\ cfg.algorithm = "sliding_window_counter"
       /\ \E id \in Ids, t \in ClockReadings : SwRedisAllow(id, t, "none")

SpecRedisExpiry == InitRedisExpiry /\ [][NextRedisExpiry]_vars

\* The limiter's script run on database db for the request of verdict v:
\* the database it leaves and whether it allows.
RedisScriptRun(db, v) ==
    IF cfg.algorithm = "token_bucket"
    THEN LET r == TbRedisScript(db, v.id, cfg.capacity, cfg.rate, v.t, 1)
         IN [db |-> r.db, allowed |-> r.result[1] = 1]
    ELSE LET r == SwRedisScript(db, v.id, v.t, cfg.window, cfg.limit)
         IN [db |-> r.db, allowed |-> r.result = 1]

\* The requests of h from position n on, run one after another on a server
\* that never drops a key, starting from db: do they get the verdicts of h?
RECURSIVE SameWithoutExpiry(_, _, _)
SameWithoutExpiry(h, n, db) ==
    IF n > Len(h) THEN TRUE
    ELSE LET r == RedisScriptRun(db, h[n])
         IN r.allowed = h[n].allowed /\ SameWithoutExpiry(h, n + 1, r.db)

\* C36: the expiry of a key never changes a verdict: the verdicts returned are
\* those the same requests, with the same timestamps, get on a server whose
\* keys never expire.
C36_ExpiryChangesNoVerdict == SameWithoutExpiry(hist, 1, Empty)

\* ---------------------------------------------------------------- registry
\* NewLimitersFromConfigPath and the closer it returns.  In this specification
\* cfg is the configuration file (a sequence of limiter configurations) and
\* mem is what the construction returned, the Redis client it created, and the
\* results of the Close calls made so far.

MaxPolicies == 2

\* The algorithm field of an entry is a string of the file: the names of the
\* library's four algorithms.  AlgorithmTypes are the three the code declares.
Algorithms ==
    {"fixed_window_counter", "sliding_window_counter", "token_bucket", "leaky_bucket"}

AlgorithmTypes == {"fixed_window_counter", "sliding_window_counter", "token_bucket"}

\* One entry of the file.  Params: the parameters of the entry's algorithm and
\* backend are all present and in range.
LimiterConfig(key, algorithm, backend, params) ==
    [Key |-> key, Algorithm |-> algorithm, Backend |-> backend, Params |-> params]

LimiterConfigs ==
    {LimiterConfig(k, a, b, p) :
        k \in {"", "web", "api"}, a \in Algorithms, b \in TbBackends, p \in BOOLEAN}

ConfigFiles == UNION {[1..n -> LimiterConfigs] : n \in 0..MaxPolicies}

\* The body of validateConfig's loop: "" or the error of one entry.
ValidateLimiter(c) ==
    IF c.Key = "" THEN "key"
    ELSE IF c.Algorithm \notin AlgorithmTypes THEN "algorithm"
    ELSE IF ~c.Params THEN "params"
    ELSE ""

RECURSIVE ValidateFrom(_, _)
ValidateFrom(file, i) ==
    IF i > Len(file) THEN ""
    ELSE IF ValidateLimiter(file[i]) # "" THEN ValidateLimiter(file[i])
    ELSE ValidateFrom(file, i + 1)

validateConfig(file) == IF Len(file) = 0 THEN "empty" ELSE ValidateFrom(file, 1)

\* LoadConfig: read and unmarshal the file (readOk), then validate it.
LoadConfig(file, readOk) == IF ~readOk THEN "read" ELSE validateConfig(file)

\* api.NewLimiterFactory: an error for an algorithm without a factory.
NewLimiterFactory(c) == IF c.Algorithm \in AlgorithmTypes THEN "" ELSE "factory"

\* CreateLimiter of the three factories: "" or an error.
CreateLimiter(c, redisClient) ==
    IF ~c.Params THEN "create"
    ELSE IF c.Backend = "inmemory" THEN ""
    ELSE IF c.Backend = "redis" THEN (IF redisClient = "none" THEN "create" ELSE "")
    ELSE "create"

\* The handle made for an entry.
Handle(c) == [Algorithm |-> c.Algorithm, Backend |-> c.Backend]

\* The loop with a failure that returns the map built so far.
RECURSIVE CreateLimitersOff(_, _, _, _)
CreateLimitersOff(file, i, limiters, redisClient) ==
    IF i > Len(file) THEN [limiters |-> limiters, err |-> ""]
    ELSE IF file[i].Key = "" THEN [limiters |-> limiters, err |-> "key"]
    ELSE IF NewLimiterFactory(file[i]) # ""
         THEN [limiters |-> limiters, err |-> "factory"]
    ELSE IF CreateLimiter(file[i], redisClient) # ""
         THEN [limiters |-> limiters, err |-> "create"]
    ELSE CreateLimitersOff(file, i + 1, Put(limiters, file[i].Key, Handle(file[i])),
                           redisClient)

\* The loop that creates the limiters, from entry i on, with the map built so
\* far: the map and error it ends with.  A failure returns no map.
RECURSIVE CreateLimiters(_, _, _, _)
CreateLimiters(file, i, limiters, redisClient) ==
    IF i > Len(file) THEN [limiters |-> limiters, err |-> ""]
    ELSE IF file[i].Key = "" THEN [limiters |-> Empty, err |-> "key"]
    ELSE IF NewLimiterFactory(file[i]) # ""
         THEN [limiters |-> Empty, err |-> "factory"]
    ELSE IF CreateLimiter(file[i], redisClient) # ""
         THEN [limiters |-> Empty, err |-> "create"]
    ELSE CreateLimiters(file, i + 1, Put(limiters, file[i].Key, Handle(file[i])),
                        redisClient)

\* What the construction returned (limiters = Empty: a nil map) and left behind.
Registry(limiters, closer, err, redisClient) ==
    [built |-> TRUE, limiters |-> limiters, closer |-> closer, err |-> err,
     redisClient |-> redisClient, closes |-> << >>]

NoRegistry ==
    [built |-> FALSE, limiters |-> Empty, closer |-> FALSE, err |-> "",
     redisClient |-> "none", closes |-> << >>]

\* readOk: the file can be read and parsed; redisOk: InitRedisClient succeeds.
NewLimitersFromConfigPath(readOk, redisOk) ==
    /\ ~mem.built
    /\ LET needsRedis == \E i \in DOMAIN cfg : cfg[i].Backend = "redis"
           loaded == LoadConfig(cfg, readOk)
           redisClient == IF needsRedis /\ redisOk THEN "open" ELSE "none"
           made == CreateLimiters(cfg, 1, Empty, redisClient)
       IN mem' = IF loaded # "" THEN Registry(Empty, FALSE, loaded, "none")
                 ELSE IF needsRedis /\ ~redisOk THEN Registry(Empty, FALSE, "redis", "none")
                 ELSE Registry(made.limiters, made.err = "", made.err, redisClient)
    /\ UNCHANGED <<cfg, now, redis, memcache, clients, hist, last>>

\* clientCloser.Close: closes the Redis client if there is one.  A client that
\* is already closed answers with an error (redis: client is closed); fault:
\* the first close itself fails.
Close(fault) ==
    /\ mem.built /\ mem.closer
    /\ Len(mem.closes) < MaxCalls
    /\ fault => mem.redisClient = "open"
    /\ LET result == IF mem.redisClient = "none" THEN ""
                     ELSE IF mem.redisClient = "closed" THEN "closed"
                     ELSE IF fault THEN "close" ELSE ""
       IN mem' = [mem EXCEPT !.closes = Append(@, result),
                             !.redisClient = IF @ = "none" THEN "none" ELSE "closed"]
    /\ UNCHANGED <<cfg, now, redis, memcache, clients, hist, last>>

InitRegistry ==
    /\ cfg \in ConfigFiles
    /\ now = 0
    /\ mem = NoRegistry
    /\ redis = Empty
    /\ memcache = Empty
    /\ clients = Empty
    /\ hist = << >>
    /\ last = NoReturn

NextRegistry ==
    \/ \E readOk, redisOk \in BOOLEAN : NewLimitersFromConfigPath(readOk, redisOk)
    \/ \E fault \in BOOLEAN : Close(fault)

SpecRegistry == InitRegistry /\ [][NextRegistry]_vars

\* C23: calling Close any number of times gives the result of calling it once:
\* every Close returns what the first Close returned (nil or the same error).
C23_CloseIdempotent ==
    \A i \in DOMAIN mem.closes : mem.closes[i] = mem.closes[1]

\* An entry that the construction cannot turn into a limiter, whatever the
\* Redis client: it fails validation or its factory refuses it.
CannotCreate(c) ==
    ValidateLimiter(c) # "" \/ NewLimiterFactory(c) # "" \/ CreateLimiter(c, "open") # ""

\* C24: construction is all-or-nothing.  A construction that returns an error
\* returns no limiter map and no closer; a file with an entry that is invalid
\* or cannot be created is answered with an error; a construction without an
\* error returns a closer and a handle under the key of every entry.
C24_AllOrNothing ==
    mem.built =>
        /\ mem.err # "" => (mem.limiters = Empty /\ ~mem.closer)
        /\ (\E i \in DOMAIN cfg : CannotCreate(cfg[i])) => mem.err # ""
        /\ mem.err = "" =>
              /\ mem.closer
              /\ \A i \in DOMAIN cfg :
                    /\ Has(mem.limiters, cfg[i].Key)
                    /\ mem.limiters[cfg[i].Key].Algorithm \in AlgorithmTypes

\* C24's case: a file whose first entry is created and whose second entry
\* passes validation and then fails in its factory.
C24_Witness ==
    /\ mem.built /\ mem.err = "create"
    /\ Len(cfg) = 2
    /\ ~CannotCreate(cfg[1])
    /\ ValidateLimiter(cfg[2]) = ""

\* C25: a readable file whose entries all have a key, valid parameters, one of
\* the four algorithms and one of the three backends is accepted, and the
\* registry holds a handle for every one of them (Redis being reachable).
C25_AcceptsEveryPolicy ==
    (/\ mem.built /\ mem.err \notin {"read", "redis"}
     /\ Len(cfg) > 0
     /\ \A i \in DOMAIN cfg : cfg[i].Key # "" /\ cfg[i].Params) =>
        /\ mem.err = ""
        /\ \A i \in DOMAIN cfg : Has(mem.limiters, cfg[i].Key)

\* C39: a construction that fails leaves no open backend connection: a client
\* that was initialised before the failure has been closed.
C39_FailureClosesClient ==
    (mem.built /\ mem.err # "") => mem.redisClient # "open"

\* ------------------------------------------------------------ backend keys
\* The key under which a Redis limiter keeps the state of an identifier.  A
\* string is the sequence of its characters; in this specification redis maps
\* each backend key to the (limiter key, identifier) pairs whose calls used it.

Chars == {"a", ":"}

\* The non-empty strings of at most two characters.
Strings == [1..1 -> Chars] \cup [1..2 -> Chars]

\* redisKey := l.key + ":" + identifier
RedisKey(key, identifier) == key \o <<":">> \o identifier

PairsSeen == UNION {redis[k] : k \in DOMAIN redis}

\* The key derivation at the head of Allow, for the limiter with key `key`.
KeyedAllow(key, identifier) ==
    /\ Cardinality(PairsSeen) < MaxCalls
    /\ LET redisKey == RedisKey(key, identifier)
           users == IF Has(redis, redisKey) THEN redis[redisKey] ELSE {}
       IN redis' = Put(redis, redisKey, users \cup {<<key, identifier>>})
    /\ UNCHANGED <<cfg, now, mem, memcache, clients, hist, last>>

InitKeys ==
    /\ cfg = Policy(TicksPerSec, 1, 0, 0, 0, FALSE)
    /\ now = 0
    /\ mem = Empty
    /\ redis = Empty
    /\ memcache = Empty
    /\ clients = Empty
    /\ hist = << >>
    /\ last = NoReturn

NextKeys == \E key \in Strings, identifier \in Strings : KeyedAllow(key, identifier)

SpecKeys == InitKeys /\ [][NextKeys]_vars

\* C33: two different (policy key, identifier) pairs never map to the same
\* backend key: every backend key is used by the calls of one pair only.
C33_KeysScoped ==
    \A k \in DOMAIN redis : Cardinality(redis[k]) <= 1

\* ------------------------------------------------------------- middleware
\* RateLimitMiddleware.Handle in front of a handler.  The limiter is any
\* types.Limiter: its Allow may return any (bool, error).  In this
\* specification hist is the log of the requests served: for each, the
\* identifier, what the limiter returned, the status the middleware wrote
\* (HandlerStatus: none, the response is the wrapped handler's), whether the
\* wrapped handler was invoked, and the outcome recorded in the metrics.

StatusInternalServerError == 500

StatusTooManyRequests == 429

HandlerStatus == 0

Identifiers == {""} \cup Ids

Response(identifier, called, allowed, err, status, next, recorded) ==
    [identifier |-> identifier, called |-> called, allowed |-> allowed, err |-> err,
     status |-> status, next |-> next, recorded |-> recorded]

\* The middleware passing on every request that the limiter marks allowed,
\* an error notwithstanding.
ServeOff(identifier, allowed, err) ==
    IF identifier = ""
    THEN Response(identifier, FALSE, FALSE, "", StatusInternalServerError, FALSE, FALSE)
    ELSE IF allowed
    THEN Response(identifier, TRUE, allowed, err, HandlerStatus, TRUE, TRUE)
    ELSE Response(identifier, TRUE, allowed, err, StatusTooManyRequests, FALSE, FALSE)

\* The function Handle returns, for a request with this identifier, (allowed,
\* err) being what limiter.Allow returns if it is called.
Serve(identifier, allowed, err) ==
    IF identifier = ""
    THEN Response(identifier, FALSE, FALSE, "", StatusInternalServerError, FALSE, FALSE)
    ELSE IF err # ""
    THEN Response(identifier, TRUE, allowed, err, StatusInternalServerError, FALSE, FALSE)
    ELSE IF allowed
    THEN Response(identifier, TRUE, allowed, err, HandlerStatus, TRUE, TRUE)
    ELSE Response(identifier, TRUE, allowed, err, StatusTooManyRequests, FALSE, FALSE)

MiddlewareHandle(identifier, allowed, err) ==
    /\ Len(hist) < MaxCalls
    /\ identifier = "" => (~allowed /\ err = "")
    /\ LET r == Serve(identifier, allowed, err)
       IN /\ hist' = Append(hist, r)
          /\ last' = IF r.called THEN Return(identifier, allowed, err, "none") ELSE last
    /\ UNCHANGED <<cfg, now, mem, redis, memcache, clients>>

InitMiddleware ==
    /\ cfg = Policy(TicksPerSec, 1, 0, 0, 0, FALSE)
    /\ now = 0
    /\ mem = Empty
    /\ redis = Empty
    /\ memcache = Empty
    /\ clients = Empty
    /\ hist = << >>
    /\ last = NoReturn

NextMiddleware ==
    \E identifier \in Identifiers, allowed \in BOOLEAN, err \in {"", "limiter"} :
        MiddlewareHandle(identifier, allowed, err)

SpecMiddleware == InitMiddleware /\ [][NextMiddleware]_vars

\* C40: the wrapped handler is invoked iff the limiter returned Allowed with no
\* error.  A Denied verdict gets status 429; a limiter error or an empty
\* identifier gets status 500; in these cases the handler is not invoked.
C40_HandlerIffAllowed ==
    \A i \in DOMAIN hist :
        LET r == hist[i]
        IN /\ r.next <=> (r.called /\ r.allowed /\ r.err = "")
           /\ (r.called /\ r.err = "" /\ ~r.allowed) =>
                 (r.status = StatusTooManyRequests /\ ~r.next)
           /\ (r.identifier = "" \/ (r.called /\ r.err # "")) =>
                 (r.status = StatusInternalServerError /\ ~r.next)
           /\ r.identifier = "" => ~r.called

\* C40's case: the middleware has answered a limiter error that came with
\* allowed = true, a Denied verdict, an empty identifier and an Allowed verdict.
C40_Witness ==
    /\ \E i \in DOMAIN hist : hist[i].called /\ hist[i].allowed /\ hist[i].err # ""
    /\ \E i \in DOMAIN hist : hist[i].status = StatusTooManyRequests
    /\ \E i \in DOMAIN hist : hist[i].identifier = ""
    /\ \E i \in DOMAIN hist : hist[i].next

====
